---- MODULE Spec2Model ----
(***************************************************************************)
(* Conway's Game of Life engine (game_of_life.py): a width x height grid,  *)
(* toroidal (wrap = TRUE) or bounded (wrap = FALSE), whose state is the    *)
(* set of live (x, y) cells.  The operations are the constructor,          *)
(* set_state, get_state and step.                                          *)
(***************************************************************************)
EXTENDS Integers, Sequences, FiniteSets, TLC

VARIABLES
    constructed,   \* an engine instance exists (__init__ returned normally)
    width,         \* self.width
    height,        \* self.height
    wrap,          \* self.wrap
    live_cells,    \* self.live_cells, a set of <<x, y>>
    op,            \* the last call made by the caller
    result,        \* how that call ended: "ok" or the exception raised
    ctor_args,     \* the arguments of the last constructor call
    arg_items,     \* the collection handed to the last set_state call,
                   \* in the order the for loop iterates it
    held,          \* the caller holds a collection returned by get_state
    returned,      \* that collection's contents
    aliased,       \* that collection is the very object self.live_cells names
    pre_cells,     \* self.live_cells as the last step call found it
    gen,           \* step calls a test has made since it loaded its pattern
    pc,            \* where a step call in progress stands: "idle" (none in
                   \* progress), "collect" (first loop), "evaluate" (second)
    todo,          \* the elements the loop in progress has yet to visit
    potential_cells,   \* step's local potential_cells
    next_live_cells    \* step's local next_live_cells

config == <<constructed, width, height, wrap>>
call == <<op, result, ctor_args, arg_items>>
caller == <<held, returned, aliased>>
locals == <<pc, todo, potential_cells, next_live_cells>>
vars == <<config, live_cells, call, caller, pre_cells, gen, locals>>

-----------------------------------------------------------------------------
(* Bounds of the model *)

\* widths and heights of the small grids range over 1..MaxDim
MaxDim == 2
\* input coordinates reach CoordSpan cells beyond either edge of the grid
CoordSpan == 1
\* a set_state input holds at most MaxItems entries
MaxItems == 2

-----------------------------------------------------------------------------
(* Values handed to the engine *)

\* A constructor wrap argument: a bool, or some other object ("yes").
BoolArg(b) == <<"bool", b>>
NonBoolArg == <<"str", TRUE>>
IsBool(arg) == arg[1] = "bool"
BoolOf(arg) == arg[2]
WrapArgs == {BoolArg(TRUE), BoolArg(FALSE), NonBoolArg}

\* One component of a tuple entry: an int, or something else ("a").
IntComp(n) == <<"int", n>>
NonIntComp == <<"str", 0>>
IsInt(v) == v[1] = "int"
IntOf(v) == v[2]

\* One entry of a set_state input: a tuple of components, or a non-tuple (1.5).
TupleItem(elems) == <<"tuple", elems>>
NonTupleItem == <<"float", <<>>>>
IsTuple(item) == item[1] = "tuple"
ElemsOf(item) == item[2]
Pair(x, y) == TupleItem(<<IntComp(x), IntComp(y)>>)

MalformedItems ==
    { TupleItem(<<IntComp(1)>>),                          \* (1,)
      TupleItem(<<NonIntComp, IntComp(2)>>),              \* ("a", 2)
      TupleItem(<<IntComp(1), IntComp(2), IntComp(3)>>),  \* (1, 2, 3)
      NonTupleItem }                                      \* 1.5

CoordRange == (0 - CoordSpan) .. (MaxDim - 1 + CoordSpan)
PairItems == { Pair(x, y) : x \in CoordRange, y \in CoordRange }

SeqsUpTo(S, n) == UNION { [1..k -> S] : k \in 0..n }
\* Inputs of pairs only, and inputs with a malformed entry at any position
\* among pairs (one on the grid, one off it).
ValidInputs == SeqsUpTo(PairItems, MaxItems)
ProbePairs == { Pair(0, 0), Pair(0 - CoordSpan, MaxDim) }
BadInputs ==
    { s \in SeqsUpTo(MalformedItems \cup ProbePairs, MaxItems) :
        \E i \in DOMAIN s : s[i] \in MalformedItems }
GeneralInputs == ValidInputs \cup BadInputs

DimArgs == -1 .. MaxDim
CtorArgs == DimArgs \X DimArgs \X WrapArgs

\* The 5 x 5 worlds of the set_state tests and the inputs they load.
NormGrid == 5
NormCtorArgs == { <<NormGrid, NormGrid, BoolArg(b)>> : b \in BOOLEAN }
WrapTestInput == <<Pair(-1, -1), Pair(5, 5), Pair(6, -2), Pair(2, 2)>>
IgnoreTestInput ==
    <<Pair(-1, 0), Pair(0, -1), Pair(5, 0), Pair(0, 5), Pair(2, 2), Pair(4, 4)>>
Reversed(s) == [i \in 1..Len(s) |-> s[Len(s) + 1 - i]]
NormInputs == { WrapTestInput, Reversed(WrapTestInput),
                IgnoreTestInput, Reversed(IgnoreTestInput) }

\* The inputs tried on a world: every short input on the small grids, the
\* tests' inputs on the tests' grids.
InputsFor(w, h) ==
    IF w <= MaxDim /\ h <= MaxDim THEN GeneralInputs ELSE NormInputs

-----------------------------------------------------------------------------
(* __init__ *)

\* InitResult with the dimension test written as < 0: a zero is let through.
InitResultZeroAllowed(w, h, wr) ==
    IF w < 0 \/ h < 0 THEN "ValueError"
    ELSE IF ~IsBool(wr) THEN "TypeError"
    ELSE "ok"

\* The exception the constructor raises, or "ok".
InitResult(w, h, wr) ==
    IF w <= 0 \/ h <= 0 THEN "ValueError"
    ELSE IF ~IsBool(wr) THEN "TypeError"
    ELSE "ok"

GameOfLife(w, h, wr) ==
    /\ ~constructed
    /\ op' = "construct"
    /\ ctor_args' = <<w, h, wr>>
    /\ result' = InitResult(w, h, wr)
    /\ IF InitResult(w, h, wr) = "ok"
       THEN /\ constructed' = TRUE
            /\ width' = w
            /\ height' = h
            /\ wrap' = BoolOf(wr)
            /\ live_cells' = {}
       ELSE UNCHANGED <<constructed, width, height, wrap, live_cells>>
    /\ pre_cells' = {}
    /\ gen' = 0
    /\ UNCHANGED <<arg_items, caller, locals>>

-----------------------------------------------------------------------------
(* set_state *)

\* The validity test of one entry.
IsCell(item) ==
    /\ IsTuple(item)
    /\ Len(ElemsOf(item)) = 2
    /\ \A i \in 1..Len(ElemsOf(item)) : IsInt(ElemsOf(item)[i])

\* The remainder that truncates toward zero (C's %): negative for negative x.
TruncMod(x, n) == IF x >= 0 THEN x % n ELSE 0 - ((0 - x) % n)

\* Python's x % n for n > 0: the result lies in 0..n-1 for every integer x.
PyMod(x, n) == x % n

\* InRange with the upper tests written as <=.
InRangeInclusive(x, y, w, h) == 0 <= x /\ x <= w /\ 0 <= y /\ y <= h

\* The bounded-mode range test of one coordinate.
InRange(x, y, w, h) == 0 <= x /\ x < w /\ 0 <= y /\ y < h

\* NormalizeItem that wraps whatever the mode.
NormalizeItemAlwaysWrap(x, y, w, h, wr) == {<<x % w, y % h>>}

\* What one valid entry adds to `normalized`.
NormalizeItem(x, y, w, h, wr) ==
    IF wr THEN {<<PyMod(x, w), PyMod(y, h)>>}
    ELSE IF InRange(x, y, w, h) THEN {<<x, y>>}
    ELSE {}

\* The for loop of set_state over the entries in iteration order:
\* `raised` when an entry failed the validity test, `normalized` the local
\* set as built when the loop ended.  The loop ends at the first entry that
\* fails the test, or after the last entry; every entry visited before that
\* has added its cell.
SetStateLoop(items, normalized, w, h, wr) ==
    LET failing == { i \in DOMAIN items : ~IsCell(items[i]) }
        stop == IF failing = {} THEN Len(items) + 1
                ELSE CHOOSE i \in failing : \A j \in failing : i <= j
    IN  [raised |-> failing # {},
         normalized |->
            normalized \cup
            UNION { NormalizeItem(IntOf(ElemsOf(items[i])[1]),
                                  IntOf(ElemsOf(items[i])[2]), w, h, wr) :
                      i \in 1..(stop - 1) }]

\* SetStateCommit of a set_state that builds the new set in self.live_cells
\* itself: what the loop had built when it raised stays.
SetStateCommitPartial(old, loop) == loop.normalized

\* SetStateCommit that merges into the prior contents.
SetStateCommitMerge(old, loop) ==
    IF loop.raised THEN old ELSE old \cup loop.normalized

\* self.live_cells when set_state ends: assigned only after the whole loop.
SetStateCommit(old, loop) ==
    IF loop.raised THEN old ELSE loop.normalized

set_state(items) ==
    /\ constructed
    /\ pc = "idle"
    /\ LET loop == SetStateLoop(items, {}, width, height, wrap) IN
         /\ live_cells' = SetStateCommit(live_cells, loop)
         /\ result' = IF loop.raised THEN "ValueError" ELSE "ok"
    /\ op' = "set_state"
    /\ arg_items' = items
    /\ aliased' = FALSE     \* self.live_cells names a new set (or none was held)
    /\ pre_cells' = {}
    /\ gen' = 0
    /\ UNCHANGED <<config, ctor_args, held, returned, locals>>

-----------------------------------------------------------------------------
(* get_state, and a caller changing the collection it was handed *)

\* get_state that hands out self.live_cells itself.
GetStateResultNoCopy(cells) == [contents |-> cells, same_object |-> TRUE]

\* What get_state returns: the contents of self.live_cells in a new set.
GetStateResult(cells) == [contents |-> cells, same_object |-> FALSE]

get_state ==
    /\ constructed
    /\ pc = "idle"
    /\ held' = TRUE
    /\ returned' = GetStateResult(live_cells).contents
    /\ aliased' = GetStateResult(live_cells).same_object
    /\ op' = "get_state"
    /\ result' = "ok"
    /\ UNCHANGED <<config, live_cells, ctor_args, arg_items, pre_cells, gen, locals>>

\* The caller adds c to (add = TRUE) or discards c from the collection it
\* holds; the engine's set changes with it only if it is the same object.
MutateReturned(c, add) ==
    /\ held
    /\ pc = "idle"
    /\ returned' = IF add THEN returned \cup {c} ELSE returned \ {c}
    /\ live_cells' = IF aliased THEN returned' ELSE live_cells
    /\ op' = "mutate"
    /\ result' = "ok"
    /\ UNCHANGED <<config, ctor_args, arg_items, held, aliased, pre_cells, gen, locals>>

-----------------------------------------------------------------------------
(* _get_neighbors_count and step *)

Offsets == {-1, 0, 1}

\* NeighborAt that never wraps: the torus counted as if it had walls.
NeighborAtNoWrap(x, y, dx, dy, w, h, wr) ==
    IF (x + dx < 0 \/ x + dx >= w \/ y + dy < 0 \/ y + dy >= h) THEN {}
    ELSE {<<x + dx, y + dy>>}

\* NeighborAt that, in bounded mode, moves an out-of-range coordinate to the
\* nearest edge instead of skipping the offset.
NeighborAtClamped(x, y, dx, dy, w, h, wr) ==
    IF wr THEN {<<(x + dx + w) % w, (y + dy + h) % h>>}
    ELSE {<<IF x + dx < 0 THEN 0 ELSE IF x + dx >= w THEN w - 1 ELSE x + dx,
            IF y + dy < 0 THEN 0 ELSE IF y + dy >= h THEN h - 1 ELSE y + dy>>}

\* NeighborAt that wraps whatever the mode: the walls counted as a torus.
NeighborAtAlwaysWrap(x, y, dx, dy, w, h, wr) ==
    {<<(x + dx + w) % w, (y + dy + h) % h>>}

\* NeighborAt that wraps the y axis only: columns beyond the left and right
\* edges are skipped.
NeighborAtWrapYOnly(x, y, dx, dy, w, h, wr) ==
    IF wr /\ (x + dx < 0 \/ x + dx >= w) THEN {}
    ELSE IF wr THEN {<<x + dx, (y + dy + h) % h>>}
    ELSE IF (x + dx < 0 \/ x + dx >= w \/ y + dy < 0 \/ y + dy >= h) THEN {}
    ELSE {<<x + dx, y + dy>>}

\* NeighborAt that wraps the x axis only: rows beyond the top and bottom
\* edges are skipped.
NeighborAtWrapXOnly(x, y, dx, dy, w, h, wr) ==
    IF wr /\ (y + dy < 0 \/ y + dy >= h) THEN {}
    ELSE IF wr THEN {<<(x + dx + w) % w, y + dy>>}
    ELSE IF (x + dx < 0 \/ x + dx >= w \/ y + dy < 0 \/ y + dy >= h) THEN {}
    ELSE {<<x + dx, y + dy>>}

\* The cell _get_neighbors_count looks up for the offset (dx, dy) of (x, y):
\* one cell, or none when bounded mode skips the offset.
NeighborAt(x, y, dx, dy, w, h, wr) ==
    IF wr THEN {<<PyMod(x + dx + w, w), PyMod(y + dy + h, h)>>}
    ELSE IF (x + dx < 0 \/ x + dx >= w \/ y + dy < 0 \/ y + dy >= h) THEN {}
    ELSE {<<x + dx, y + dy>>}

\* get_neighbors_count without the `continue` on dx == 0 and dy == 0.
get_neighbors_count_with_self(x, y, cells, w, h, wr) ==
    Cardinality({ d \in Offsets \X Offsets :
                    NeighborAt(x, y, d[1], d[2], w, h, wr) \cap cells # {} })

\* count: one for each of the eight offsets whose cell is live.
get_neighbors_count(x, y, cells, w, h, wr) ==
    Cardinality({ d \in Offsets \X Offsets :
                    /\ ~(d[1] = 0 /\ d[2] = 0)
                    /\ NeighborAt(x, y, d[1], d[2], w, h, wr) \cap cells # {} })

\* CandidateAt that never wraps: candidates beyond an edge are dropped.
CandidateAtNoWrap(x, y, dx, dy, w, h, wr) ==
    IF (0 <= x + dx /\ x + dx < w /\ 0 <= y + dy /\ y + dy < h)
    THEN {<<x + dx, y + dy>>}
    ELSE {}

\* CandidateAt whose bounded-mode lower tests are strict: 0 < nx and 0 < ny.
CandidateAtStrictLower(x, y, dx, dy, w, h, wr) ==
    IF wr THEN {<<(x + dx + w) % w, (y + dy + h) % h>>}
    ELSE IF (0 < x + dx /\ x + dx < w /\ 0 < y + dy /\ y + dy < h)
         THEN {<<x + dx, y + dy>>}
         ELSE {}

\* The cell step's first loop adds to potential_cells for the offset (dx, dy)
\* of the live cell (x, y); the offset (0, 0) is not excluded there.
CandidateAt(x, y, dx, dy, w, h, wr) ==
    IF wr THEN {<<PyMod(x + dx + w, w), PyMod(y + dy + h, h)>>}
    ELSE IF (0 <= x + dx /\ x + dx < w /\ 0 <= y + dy /\ y + dy < h)
         THEN {<<x + dx, y + dy>>}
         ELSE {}

\* What the first loop adds for one live cell.
CandidatesOf(c, w, h, wr) ==
    UNION { CandidateAt(c[1], c[2], d[1], d[2], w, h, wr) :
              d \in Offsets \X Offsets }

\* PotentialCells of a first loop that is left out: only the live cells.
PotentialCellsLiveOnly(cells, w, h, wr) == cells

\* potential_cells when the first loop ends.
PotentialCells(cells, w, h, wr) ==
    cells \cup UNION { CandidatesOf(c, w, h, wr) : c \in cells }

\* LivesNext whose survival test is count == 3 alone.
LivesNextSurviveThreeOnly(c, cells, w, h, wr) ==
    get_neighbors_count(c[1], c[2], cells, w, h, wr) = 3

\* LivesNext without the birth branch.
LivesNextNoBirth(c, cells, w, h, wr) ==
    LET count == get_neighbors_count(c[1], c[2], cells, w, h, wr)
    IN  c \in cells /\ (count = 2 \/ count = 3)

\* Conway's rule for one candidate, read against `cells`.
LivesNext(c, cells, w, h, wr) ==
    LET count == get_neighbors_count(c[1], c[2], cells, w, h, wr)
        is_alive == c \in cells
    IN  \/ is_alive /\ (count = 2 \/ count = 3)
        \/ ~is_alive /\ count = 3

\* NextLiveCells of a step that evaluates every cell of the grid and lets a
\* dead cell be born on a count of 0 as well as on 3.
NextLiveCellsBirthOnNone(cells, w, h, wr) ==
    { c \in (0..(w - 1)) \X (0..(h - 1)) :
        LET count == get_neighbors_count(c[1], c[2], cells, w, h, wr)
        IN  \/ c \in cells /\ (count = 2 \/ count = 3)
            \/ c \notin cells /\ (count = 3 \/ count = 0) }

\* next_live_cells when the loop over potential_cells ends.
NextLiveCells(cells, w, h, wr) ==
    { c \in PotentialCells(cells, w, h, wr) : LivesNext(c, cells, w, h, wr) }

\* One whole step call.
step ==
    /\ constructed
    /\ pc = "idle"
    /\ live_cells' = NextLiveCells(live_cells, width, height, wrap)
    /\ pre_cells' = live_cells
    /\ op' = "step"
    /\ result' = "ok"
    /\ aliased' = FALSE     \* self.live_cells names the new next_live_cells
    /\ UNCHANGED <<config, ctor_args, arg_items, held, returned, locals>>

AnyStep == step /\ UNCHANGED gen

-----------------------------------------------------------------------------
(* step, one loop iteration at a time; a loop over a set visits its        *)
(* elements in any order                                                   *)

\* Entry: next_live_cells = set(), potential_cells = set(self.live_cells),
\* and the first loop starts over self.live_cells.
StepBegin ==
    /\ constructed
    /\ pc = "idle"
    /\ pc' = "collect"
    /\ next_live_cells' = {}
    /\ potential_cells' = live_cells
    /\ todo' = live_cells
    /\ pre_cells' = live_cells
    /\ op' = "step"
    /\ result' = "running"
    /\ UNCHANGED <<config, live_cells, ctor_args, arg_items, caller, gen>>

\* potential_cells bound to self.live_cells itself, without set(...).
PotentialCellsIsLiveCellsAliased == TRUE

\* Whether potential_cells is the very object the first loop iterates:
\* set(self.live_cells) builds a new set, so it is not.
PotentialCellsIsLiveCells == FALSE

\* One iteration of the first loop: the live cell c adds its candidates.
\* A for loop over a set raises RuntimeError when the set has changed size
\* since the loop began, which adding to the iterated object itself would do.
CollectOne(c) ==
    /\ pc = "collect"
    /\ c \in todo
    /\ IF /\ PotentialCellsIsLiveCells
          /\ ~(CandidatesOf(c, width, height, wrap) \subseteq live_cells)
       THEN /\ live_cells' = live_cells \cup CandidatesOf(c, width, height, wrap)
            /\ result' = "RuntimeError"
            /\ pc' = "idle"
            /\ todo' = {}
            /\ potential_cells' = {}
            /\ UNCHANGED <<op, ctor_args, arg_items>>
       ELSE /\ potential_cells' =
                  potential_cells \cup CandidatesOf(c, width, height, wrap)
            /\ todo' = todo \ {c}
            /\ UNCHANGED <<live_cells, call, pc>>
    /\ UNCHANGED <<config, caller, pre_cells, gen, next_live_cells>>

\* The first loop is exhausted: the second starts over potential_cells.
StartEvaluate ==
    /\ pc = "collect"
    /\ todo = {}
    /\ pc' = "evaluate"
    /\ todo' = potential_cells
    /\ UNCHANGED <<config, live_cells, call, caller, pre_cells, gen,
                   potential_cells, next_live_cells>>

\* An evaluation that updates self.live_cells in place as it decides c.
LiveDuringEvaluateInPlace(live, c, lives) ==
    IF lives THEN live \cup {c} ELSE live \ {c}

\* self.live_cells after one iteration of the second loop: the loop adds
\* only to next_live_cells.
LiveDuringEvaluate(live, c, lives) == live

\* EvaluateOne that counts and tests against the cells decided so far
\* together with self.live_cells.
EvaluateOneReadsNext(c) ==
    /\ pc = "evaluate"
    /\ c \in todo
    /\ LET lives == LivesNext(c, live_cells \cup next_live_cells,
                              width, height, wrap) IN
         /\ next_live_cells' =
                IF lives THEN next_live_cells \cup {c} ELSE next_live_cells
         /\ live_cells' = live_cells
    /\ todo' = todo \ {c}
    /\ UNCHANGED <<config, call, caller, pre_cells, gen, pc, potential_cells>>

\* One iteration of the second loop: the candidate c is counted and tested
\* against self.live_cells.
EvaluateOne(c) ==
    /\ pc = "evaluate"
    /\ c \in todo
    /\ LET lives == LivesNext(c, live_cells, width, height, wrap) IN
         /\ next_live_cells' =
                IF lives THEN next_live_cells \cup {c} ELSE next_live_cells
         /\ live_cells' = LiveDuringEvaluate(live_cells, c, lives)
    /\ todo' = todo \ {c}
    /\ UNCHANGED <<config, call, caller, pre_cells, gen, pc, potential_cells>>

\* The second loop is exhausted: self.live_cells = next_live_cells, return.
StepEnd ==
    /\ pc = "evaluate"
    /\ todo = {}
    /\ live_cells' = next_live_cells
    /\ pc' = "idle"
    /\ result' = "ok"
    /\ aliased' = FALSE
    /\ potential_cells' = {}
    /\ next_live_cells' = {}
    /\ UNCHANGED <<config, op, ctor_args, arg_items, held, returned, pre_cells,
                   gen, todo>>

-----------------------------------------------------------------------------
(* The engine driven by a caller: construct, then any calls *)

Init ==
    /\ constructed = FALSE
    /\ width = 0
    /\ height = 0
    /\ wrap = FALSE
    /\ live_cells = {}
    /\ op = "none"
    /\ result = "ok"
    /\ ctor_args = <<0, 0, NonBoolArg>>
    /\ arg_items = <<>>
    /\ held = FALSE
    /\ returned = {}
    /\ aliased = FALSE
    /\ pre_cells = {}
    /\ gen = 0
    /\ pc = "idle"
    /\ todo = {}
    /\ potential_cells = {}
    /\ next_live_cells = {}

Next ==
    \/ \E a \in CtorArgs \cup NormCtorArgs : GameOfLife(a[1], a[2], a[3])
    \/ \E items \in InputsFor(width, height) : set_state(items)
    \/ AnyStep

Spec == Init /\ [][Next]_vars

-----------------------------------------------------------------------------
(* step on every live-cell set of every grid of at most MaxArea cells *)

\* the grids are those with width * height <= MaxArea
MaxArea == 9

GridsUpTo(area) ==
    { d \in (1..area) \X (1..area) : d[1] * d[2] <= area }

GridCells(w, h) == (0..(w - 1)) \X (0..(h - 1))

\* The cells of a set as a collection in some iteration order: here by
\* column, then by row.
Before(d, c) == d[1] < c[1] \/ (d[1] = c[1] /\ d[2] < c[2])
SeqOf(S) ==
    [ i \in 1..Cardinality(S) |->
        LET c == CHOOSE c \in S : Cardinality({ d \in S : Before(d, c) }) = i - 1
        IN  Pair(c[1], c[2]) ]

\* An engine right after set_state loaded the cells S.
Loaded(w, h, wr, S) ==
    /\ constructed = TRUE
    /\ width = w
    /\ height = h
    /\ wrap = wr
    /\ live_cells = SetStateCommit({}, SetStateLoop(SeqOf(S), {}, w, h, wr))
    /\ op = "set_state"
    /\ result = "ok"
    /\ ctor_args = <<w, h, BoolArg(wr)>>
    /\ arg_items = SeqOf(S)
    /\ held = FALSE
    /\ returned = {}
    /\ aliased = FALSE
    /\ pre_cells = {}
    /\ gen = 0
    /\ pc = "idle"
    /\ todo = {}
    /\ potential_cells = {}
    /\ next_live_cells = {}

\* An engine right after construction.
Fresh(w, h, wr) ==
    /\ constructed = TRUE
    /\ width = w
    /\ height = h
    /\ wrap = wr
    /\ live_cells = {}
    /\ op = "construct"
    /\ result = InitResult(w, h, BoolArg(wr))
    /\ ctor_args = <<w, h, BoolArg(wr)>>
    /\ arg_items = <<>>
    /\ held = FALSE
    /\ returned = {}
    /\ aliased = FALSE
    /\ pre_cells = {}
    /\ gen = 0
    /\ pc = "idle"
    /\ todo = {}
    /\ potential_cells = {}
    /\ next_live_cells = {}

InitStep ==
    \E d \in GridsUpTo(MaxArea), wr \in BOOLEAN :
        \E S \in SUBSET GridCells(d[1], d[2]) : Loaded(d[1], d[2], wr, S)

NextStep == AnyStep

SpecStep == InitStep /\ [][NextStep]_vars

-----------------------------------------------------------------------------
(* step on every live-cell set of every torus of at most ShiftArea cells *)

\* the tori are those with width * height <= ShiftArea
ShiftArea == 9

InitShift ==
    \E d \in GridsUpTo(ShiftArea) :
        \E S \in SUBSET GridCells(d[1], d[2]) : Loaded(d[1], d[2], TRUE, S)

NextShift == AnyStep

SpecShift == InitShift /\ [][NextShift]_vars

-----------------------------------------------------------------------------
(* step in both modes from every live-cell set that keeps off the edges, on *)
(* every grid whose inside (the cells off the edges) has at most InnerArea  *)
(* cells                                                                    *)

\* the grids are those with (width - 2) * (height - 2) <= InnerArea
InnerArea == 9

\* The cells with 1 <= x <= w - 2 and 1 <= y <= h - 2.
InnerCells(w, h) == (1..(w - 2)) \X (1..(h - 2))

InitModes ==
    \E d \in GridsUpTo(InnerArea), wr \in BOOLEAN :
        \E S \in SUBSET InnerCells(d[1] + 2, d[2] + 2) :
            Loaded(d[1] + 2, d[2] + 2, wr, S)

NextModes == AnyStep

SpecModes == InitModes /\ [][NextModes]_vars

-----------------------------------------------------------------------------
(* step taken iteration by iteration, from every live-cell set of every    *)
(* grid of at most LoopArea cells                                          *)

\* the grids are those with width * height <= LoopArea
LoopArea == 6

InitLoop ==
    \E d \in GridsUpTo(LoopArea), wr \in BOOLEAN :
        \E S \in SUBSET GridCells(d[1], d[2]) : Loaded(d[1], d[2], wr, S)

NextLoop ==
    \/ StepBegin
    \/ \E c \in todo : CollectOne(c)
    \/ StartEvaluate
    \/ \E c \in todo : EvaluateOne(c)
    \/ StepEnd

SpecLoop == InitLoop /\ [][NextLoop]_vars

-----------------------------------------------------------------------------
(* step taken iteration by iteration with get_state called between steps,  *)
(* from every live-cell set of every grid of at most RunArea cells; a call  *)
(* that has begun runs on until it returns                                  *)

\* the grids are those with width * height <= RunArea
RunArea == 4

InitRun ==
    \E d \in GridsUpTo(RunArea), wr \in BOOLEAN :
        \E S \in SUBSET GridCells(d[1], d[2]) : Loaded(d[1], d[2], wr, S)

\* The next iteration, or the return, of the step call in progress.
StepContinues ==
    \/ \E c \in todo : CollectOne(c)
    \/ StartEvaluate
    \/ \E c \in todo : EvaluateOne(c)
    \/ StepEnd

NextRun ==
    \/ StepBegin
    \/ StepContinues
    \/ get_state

SpecRun == InitRun /\ [][NextRun]_vars /\ WF_vars(StepContinues)

-----------------------------------------------------------------------------
(* The pattern tests: the 10 x 10 torus of setUp, a pattern loaded into it, *)
(* and step called a number of times                                        *)

\* the tests' world is TestGrid x TestGrid
TestGrid == 10
\* a test calls step at most MaxGen times after loading its pattern
MaxGen == 4

\* translate(cells, dx, dy, width, height) of the tests.
translate(cells, dx, dy, w, h) ==
    { <<PyMod(c[1] + dx, w), PyMod(c[2] + dy, h)>> : c \in cells }

BlinkerH == {<<1, 2>>, <<2, 2>>, <<3, 2>>}
BlinkerHWrap == {<<9, 1>>, <<0, 1>>, <<1, 1>>}

\* The still lifes, the torus tests' sets, the glider and the full boards.
Block == {<<1, 1>>, <<1, 2>>, <<2, 1>>, <<2, 2>>}
Beehive == {<<2, 1>>, <<3, 1>>, <<1, 2>>, <<4, 2>>, <<2, 3>>, <<3, 3>>}
Boat == {<<0, 0>>, <<1, 0>>, <<0, 1>>, <<2, 1>>, <<1, 2>>}
TorusCorner == {<<9, 9>>, <<0, 9>>, <<9, 0>>}
TorusRightEdge == {<<9, 5>>, <<9, 4>>, <<9, 6>>, <<0, 4>>, <<0, 5>>}
TorusBottomEdge == {<<5, 9>>, <<5, 0>>, <<6, 9>>}
GliderStart == {<<1, 0>>, <<2, 1>>, <<0, 2>>, <<1, 2>>, <<2, 2>>}
FullBoard(n) == (0..(n - 1)) \X (0..(n - 1))

\* The patterns loaded: the blinker at every place of the torus, the two
\* placements of the tests among them, and the other sets of the tests.
Patterns ==
    {BlinkerH, BlinkerHWrap} \cup
    { translate(BlinkerH, dx, dy, TestGrid, TestGrid) :
        dx \in 0..(TestGrid - 1), dy \in 0..(TestGrid - 1) } \cup
    {Block, Beehive, Boat, TorusCorner, TorusRightEdge, TorusBottomEdge,
     GliderStart, FullBoard(TestGrid), {}}

\* The bounded world of test_full_board_bounded_differs is 3 x 3.
BoundedGrid == 3

\* What a test hands to set_state: the patterns in the torus of setUp, the
\* full board in the bounded world.
PatternInputs == { SeqOf(P) : P \in Patterns }
BoundedInputs == { SeqOf(FullBoard(BoundedGrid)) }
PatternsFor(w) == IF w = TestGrid THEN PatternInputs ELSE BoundedInputs

\* step called by a test that counts its calls.
TestStep ==
    /\ gen < MaxGen
    /\ step
    /\ gen' = gen + 1

InitPatterns ==
    \/ Fresh(TestGrid, TestGrid, TRUE)
    \/ Fresh(BoundedGrid, BoundedGrid, FALSE)

NextPatterns ==
    \/ \E items \in PatternsFor(width) : set_state(items)
    \/ TestStep

SpecPatterns == InitPatterns /\ [][NextPatterns]_vars

-----------------------------------------------------------------------------
(* The engine and a caller that keeps and changes what get_state returned *)

\* the grids are those with width * height <= CopyArea
CopyArea == 4

InitCopy ==
    \E d \in GridsUpTo(CopyArea), wr \in BOOLEAN : Fresh(d[1], d[2], wr)

\* The cells a caller adds or discards: the grid's, and one off the grid.
MutableCells == GridCells(width, height) \cup {<<width, height>>}

NextCopy ==
    \/ \E S \in SUBSET GridCells(width, height) : set_state(SeqOf(S))
    \/ get_state
    \/ \E c \in MutableCells, add \in BOOLEAN : MutateReturned(c, add)
    \/ AnyStep

SpecCopy == InitCopy /\ [][NextCopy]_vars

-----------------------------------------------------------------------------
(* Properties of construction and set_state, checked under Spec *)

\* A cell lies on the grid.
OnGrid(c) == 0 <= c[1] /\ c[1] <= width - 1 /\ 0 <= c[2] /\ c[2] <= height - 1

\* An entry is a pair of two ints.
IsPairItem(item) ==
    /\ item[1] = "tuple"
    /\ DOMAIN item[2] = {1, 2}
    /\ item[2][1][1] = "int" /\ item[2][2][1] = "int"
XOf(item) == item[2][1][2]
YOf(item) == item[2][2][2]
AllPairs(items) == \A i \in DOMAIN items : IsPairItem(items[i])

\* The mathematical x mod n: the r in 0..n-1 with x - r a multiple of n.
Abs(x) == IF x < 0 THEN 0 - x ELSE x
MathMod(x, n) ==
    CHOOSE r \in 0..(n - 1) : \E k \in (0 - Abs(x) - 1)..(Abs(x) + 1) : x = k * n + r

\* C1: once an engine is constructed, every stored live cell (x, y) has
\* 0 <= x < width and 0 <= y < height, after any set_state and step calls.
C1_LiveCellsInBounds ==
    constructed => (width >= 1 /\ height >= 1 /\ \A c \in live_cells : OnGrid(c))

\* C1 witness: an input with an off-grid coordinate was loaded, a step was
\* taken, and cells are alive.
C1_Witness ==
    /\ op = "step"
    /\ live_cells # {}
    /\ \E i \in DOMAIN arg_items :
          IsPairItem(arg_items[i]) /\ ~OnGrid(<<XOf(arg_items[i]), YOf(arg_items[i])>>)

\* C3: a set_state call whose input holds a malformed entry, wherever it
\* sits, ends in ValueError and leaves the live-cell set as it was.
C3_RejectedInputChangesNothing ==
    [][ (op' = "set_state" /\ ~AllPairs(arg_items'))
            => (result' = "ValueError" /\ live_cells' = live_cells) ]_vars

\* C3 witness: a rejected input whose first entry is a valid on-grid cell
\* that is not alive, the malformed entry coming after it.
C3_Witness ==
    /\ op = "set_state" /\ result = "ValueError"
    /\ Len(arg_items) >= 2
    /\ IsPairItem(arg_items[1])
    /\ OnGrid(<<XOf(arg_items[1]), YOf(arg_items[1])>>)
    /\ <<XOf(arg_items[1]), YOf(arg_items[1])>> \notin live_cells
    /\ live_cells # {}

\* The image of an input of pairs: wrapped in toroidal mode, filtered to the
\* grid in bounded mode.
ImageOf(items) ==
    IF wrap
    THEN { <<MathMod(XOf(items[i]), width), MathMod(YOf(items[i]), height)>> :
             i \in DOMAIN items }
    ELSE { <<XOf(items[i]), YOf(items[i])>> : i \in
             { j \in DOMAIN items : OnGrid(<<XOf(items[j]), YOf(items[j])>>) } }

\* C4: after a successful set_state the live-cell set is exactly the image of
\* the input, whatever the set held before, and holds no more members than
\* the input has entries.
C4_SetStateReplaces ==
    (op = "set_state" /\ result = "ok")
        => /\ live_cells = ImageOf(arg_items)
           /\ Cardinality(live_cells) <= Len(arg_items)

\* C4 witness: two different entries with the same image were loaded and
\* collapsed to one member.
C4_Witness ==
    /\ op = "set_state" /\ result = "ok"
    /\ Len(arg_items) = 2 /\ arg_items[1] # arg_items[2]
    /\ Cardinality(live_cells) = 1

\* C5: in toroidal mode a successful set_state stores exactly the cells
\* (x mod width, y mod height) of the input's entries, and on the 5 x 5
\* torus the input {(-1,-1),(5,5),(6,-2),(2,2)} is stored as
\* {(4,4),(0,0),(1,3),(2,2)}.
C5_ToroidalModulo ==
    (constructed /\ wrap /\ op = "set_state" /\ result = "ok")
        => /\ \A i \in DOMAIN arg_items :
                <<MathMod(XOf(arg_items[i]), width),
                  MathMod(YOf(arg_items[i]), height)>> \in live_cells
           /\ \A c \in live_cells : \E i \in DOMAIN arg_items :
                /\ c[1] = MathMod(XOf(arg_items[i]), width)
                /\ c[2] = MathMod(YOf(arg_items[i]), height)
           /\ (width = 5 /\ height = 5 /\
               arg_items \in {WrapTestInput, Reversed(WrapTestInput)})
                 => live_cells = {<<4, 4>>, <<0, 0>>, <<1, 3>>, <<2, 2>>}

\* C5 witness: the test's input was loaded into the 5 x 5 torus.
C5_Witness ==
    /\ wrap /\ width = 5 /\ height = 5
    /\ op = "set_state" /\ result = "ok"
    /\ arg_items = WrapTestInput

\* C6: in bounded mode a set_state whose entries are all pairs of ints
\* succeeds whatever their range, and stores exactly the entries that lie on
\* the grid, unchanged.
C6_BoundedDropsOutOfRange ==
    (constructed /\ ~wrap /\ op = "set_state" /\ AllPairs(arg_items))
        => /\ result = "ok"
           /\ \A i \in DOMAIN arg_items :
                LET c == <<XOf(arg_items[i]), YOf(arg_items[i])>>
                IN  c \in live_cells <=> OnGrid(c)
           /\ \A c \in live_cells : \E i \in DOMAIN arg_items :
                c = <<XOf(arg_items[i]), YOf(arg_items[i])>>

\* C6 witness: every entry of a non-empty input was off the grid and the
\* stored set is empty.
C6_Witness ==
    /\ constructed /\ ~wrap
    /\ op = "set_state" /\ result = "ok"
    /\ Len(arg_items) >= 2
    /\ \A i \in DOMAIN arg_items :
          ~OnGrid(<<XOf(arg_items[i]), YOf(arg_items[i])>>)
    /\ live_cells = {}

\* C8 as stated: non-positive width or height gives ValueError and no
\* engine; a non-bool wrap gives TypeError; otherwise construction succeeds
\* with an empty live-cell set.
C8_AsStated ==
    op = "construct" =>
        LET w == ctor_args[1]  h == ctor_args[2]  wr == ctor_args[3]
        IN  /\ (w <= 0 \/ h <= 0) => (result = "ValueError" /\ ~constructed)
            /\ ~IsBool(wr) => result = "TypeError"
            /\ (w >= 1 /\ h >= 1 /\ IsBool(wr))
                 => (result = "ok" /\ constructed /\ live_cells = {})

\* C8 amended: the non-bool wrap gives TypeError when width and height are
\* both at least 1; with a non-positive dimension the dimension test comes
\* first and the error is ValueError.
C8_ConstructionValidation ==
    op = "construct" =>
        LET w == ctor_args[1]  h == ctor_args[2]  wr == ctor_args[3]
        IN  /\ (w <= 0 \/ h <= 0) => (result = "ValueError" /\ ~constructed)
            /\ (w >= 1 /\ h >= 1 /\ ~IsBool(wr))
                 => (result = "TypeError" /\ ~constructed)
            /\ (w >= 1 /\ h >= 1 /\ IsBool(wr))
                 => /\ result = "ok" /\ constructed /\ live_cells = {}
                    /\ width = w /\ height = h /\ wrap = BoolOf(wr)

\* C8 witness: a construction with good dimensions and a non-bool wrap failed.
C8_Witness ==
    /\ op = "construct" /\ result = "TypeError"
    /\ ctor_args[1] >= 1 /\ ctor_args[2] >= 1

-----------------------------------------------------------------------------
(* Properties of step, checked under SpecStep *)

\* The neighbour count of a grid cell against a set S, by the boundary rule:
\* the offsets other than (0, 0) whose cell, wrapped on the torus or taken
\* as it is inside the walls, is in S.
\* A coordinate one step off either edge of a ring of n, brought back on it.
Around(v, n) == IF v < 0 THEN v + n ELSE IF v > n - 1 THEN v - n ELSE v

RuleCount(c, S) ==
    Cardinality({ d \in ({-1, 0, 1} \X {-1, 0, 1}) \ {<<0, 0>>} :
        IF wrap
        THEN <<Around(c[1] + d[1], width), Around(c[2] + d[2], height)>> \in S
        ELSE /\ <<c[1] + d[1], c[2] + d[2]>> \in GridCells(width, height)
             /\ <<c[1] + d[1], c[2] + d[2]>> \in S })

\* Conway's rule for the cell c against the generation S.
RuleAlive(c, S) ==
    \/ c \in S /\ RuleCount(c, S) \in {2, 3}
    \/ c \notin S /\ RuleCount(c, S) = 3

\* C2: after a step from the live set S, every cell of the whole grid is
\* alive exactly when Conway's rule on S says so, and nothing off the
\* grid is alive.
C2_StepIsFullGridRule ==
    op = "step" =>
        /\ \A c \in GridCells(width, height) :
              c \in live_cells <=> RuleAlive(c, pre_cells)
        /\ live_cells \subseteq GridCells(width, height)

\* C2 witness: a step gave birth to a cell and kept another while some grid
\* cell was not among the candidates.
C2_Witness ==
    /\ op = "step"
    /\ live_cells \ pre_cells # {}
    /\ live_cells \cap pre_cells # {}
    /\ GridCells(width, height) \ PotentialCells(pre_cells, width, height, wrap) # {}

-----------------------------------------------------------------------------
(* Properties of get_state, checked under SpecCopy *)

\* C7: get_state leaves the live-cell set as it is and returns its
\* contents; a caller's change to a returned collection leaves the live-cell
\* set as it is; set_state and step leave a collection returned earlier as
\* it is.
C7_GetStateIsIndependentCopy ==
    [][ /\ op' = "get_state" => (live_cells' = live_cells /\ returned' = live_cells)
        /\ op' = "mutate" => live_cells' = live_cells
        /\ (held /\ op' \in {"set_state", "step"}) => returned' = returned ]_vars

\* C7 witness: the caller has changed the collection it was handed, which
\* now differs from the engine's non-empty live-cell set.
C7_Witness ==
    /\ op = "mutate"
    /\ held
    /\ live_cells # {}
    /\ returned # live_cells

-----------------------------------------------------------------------------
(* Properties of step's loops, checked under SpecLoop *)

\* C9: whatever order the two loops visit their sets in, a finished step
\* leaves the one live-cell set that the configuration and the live-cell
\* set it started from determine.
C9_StepIsDeterministic ==
    (pc = "idle" /\ op = "step")
        => live_cells = NextLiveCells(pre_cells, width, height, wrap)

\* C9 witness: a step over at least three candidates has finished with
\* both a birth and a death.
C9_Witness ==
    /\ pc = "idle" /\ op = "step"
    /\ Cardinality(PotentialCells(pre_cells, width, height, wrap)) >= 3
    /\ live_cells \ pre_cells # {}
    /\ pre_cells \ live_cells # {}

-----------------------------------------------------------------------------
(* Properties of the patterns, checked under SpecPatterns *)

\* The cells of the last input loaded, as given.
LoadedCells == { <<XOf(arg_items[i]), YOf(arg_items[i])>> : i \in DOMAIN arg_items }

\* A set of cells moved by (a, b) around the torus.
Moved(cells, a, b) ==
    { <<MathMod(c[1] + a, width), MathMod(c[2] + b, height)>> : c \in cells }

\* C10: on the 10 x 10 torus the horizontal blinker {(1,2),(2,2),(3,2)} is
\* {(2,1),(2,2),(2,3)} after every odd number of steps and itself after every
\* even number; the blinker across the edge {(9,1),(0,1),(1,1)} is
\* {(0,0),(0,1),(0,2)} after one step; and so for the blinker at every place.
C10_BlinkerPeriodTwo ==
    (width = 10 /\ height = 10 /\ wrap /\ op \in {"set_state", "step"}) =>
        /\ LoadedCells = {<<1, 2>>, <<2, 2>>, <<3, 2>>} =>
              live_cells = IF gen % 2 = 1 THEN {<<2, 1>>, <<2, 2>>, <<2, 3>>}
                           ELSE {<<1, 2>>, <<2, 2>>, <<3, 2>>}
        /\ LoadedCells = {<<9, 1>>, <<0, 1>>, <<1, 1>>} =>
              live_cells = IF gen % 2 = 1 THEN {<<0, 0>>, <<0, 1>>, <<0, 2>>}
                           ELSE {<<9, 1>>, <<0, 1>>, <<1, 1>>}
        /\ \A a \in 0..9, b \in 0..9 :
              LoadedCells = Moved({<<1, 2>>, <<2, 2>>, <<3, 2>>}, a, b) =>
                live_cells =
                    IF gen % 2 = 1 THEN Moved({<<2, 1>>, <<2, 2>>, <<2, 3>>}, a, b)
                    ELSE LoadedCells

\* C10 witness: the blinker across the edge has been stepped three times.
C10_Witness ==
    /\ width = 10 /\ height = 10 /\ wrap
    /\ op = "step"
    /\ LoadedCells = {<<9, 1>>, <<0, 1>>, <<1, 1>>}
    /\ gen = 3

\* C11: on the 10 x 10 torus the block {(1,1),(1,2),(2,1),(2,2)}, the beehive
\* {(2,1),(3,1),(1,2),(4,2),(2,3),(3,3)} and the boat
\* {(0,0),(1,0),(0,1),(2,1),(1,2)} are still lifes: after one step, and after
\* any number of steps, the live-cell set is the loaded set.
C11_StillLifesAreFixed ==
    (width = 10 /\ height = 10 /\ wrap /\ op \in {"set_state", "step"}
       /\ LoadedCells \in { {<<1, 1>>, <<1, 2>>, <<2, 1>>, <<2, 2>>},
                            {<<2, 1>>, <<3, 1>>, <<1, 2>>, <<4, 2>>, <<2, 3>>, <<3, 3>>},
                            {<<0, 0>>, <<1, 0>>, <<0, 1>>, <<2, 1>>, <<1, 2>>} })
        => live_cells = LoadedCells

\* C11 witness: the boat, which touches two edges of the torus, has been
\* stepped twice.
C11_Witness ==
    /\ width = 10 /\ height = 10 /\ wrap
    /\ op = "step" /\ gen = 2
    /\ LoadedCells = {<<0, 0>>, <<1, 0>>, <<0, 1>>, <<2, 1>>, <<1, 2>>}

\* C12: one step of the full 3 x 3 bounded grid leaves exactly the corners
\* {(0,0),(2,0),(0,2),(2,2)}; one step of the full 10 x 10 torus leaves
\* nothing, every cell there having neighbour count 8.
C12_FullGridsDiverge ==
    /\ (width = 3 /\ height = 3 /\ ~wrap /\ Cardinality(LoadedCells) = 9
          /\ op = "step" /\ gen = 1)
         => live_cells = {<<0, 0>>, <<2, 0>>, <<0, 2>>, <<2, 2>>}
    /\ (width = 10 /\ height = 10 /\ wrap /\ Cardinality(LoadedCells) = 100)
         => /\ (op = "set_state") =>
                  \A c \in live_cells :
                     get_neighbors_count(c[1], c[2], live_cells, 10, 10, TRUE) = 8
            /\ (op = "step" /\ gen = 1) => live_cells = {}

\* C12 witness: the full bounded 3 x 3 grid has been stepped once.
C12_Witness ==
    /\ width = 3 /\ height = 3 /\ ~wrap
    /\ Cardinality(LoadedCells) = 9
    /\ op = "step" /\ gen = 1 /\ Cardinality(pre_cells) = 9

\* C13: on the 10 x 10 torus, with {(9,9),(0,9),(9,0)} alive the dead cell
\* (0,0) has neighbour count 3 and is alive after one step; with
\* {(9,5),(9,4),(9,6),(0,4),(0,5)} the cell (9,5) has count 4 and is dead
\* after one step; with {(5,9),(5,0),(6,9)} the cell (5,9) has count 2 and is
\* alive after one step.
C13_TorusWrapCounts ==
    (width = 10 /\ height = 10 /\ wrap) =>
        /\ LoadedCells = {<<9, 9>>, <<0, 9>>, <<9, 0>>} =>
              /\ op = "set_state" =>
                    /\ <<0, 0>> \notin live_cells
                    /\ get_neighbors_count(0, 0, live_cells, 10, 10, TRUE) = 3
              /\ (op = "step" /\ gen = 1) => <<0, 0>> \in live_cells
        /\ LoadedCells = {<<9, 5>>, <<9, 4>>, <<9, 6>>, <<0, 4>>, <<0, 5>>} =>
              /\ op = "set_state" =>
                    get_neighbors_count(9, 5, live_cells, 10, 10, TRUE) = 4
              /\ (op = "step" /\ gen = 1) => <<9, 5>> \notin live_cells
        /\ LoadedCells = {<<5, 9>>, <<5, 0>>, <<6, 9>>} =>
              /\ op = "set_state" =>
                    get_neighbors_count(5, 9, live_cells, 10, 10, TRUE) = 2
              /\ (op = "step" /\ gen = 1) => <<5, 9>> \in live_cells

\* C13 witness: the corner set has been stepped once and (0,0) was born.
C13_Witness ==
    /\ width = 10 /\ height = 10 /\ wrap
    /\ op = "step" /\ gen = 1
    /\ pre_cells = {<<9, 9>>, <<0, 9>>, <<9, 0>>}
    /\ <<0, 0>> \in live_cells

\* C14: on the 10 x 10 torus the glider {(1,0),(2,1),(0,2),(1,2),(2,2)} is,
\* after exactly 4 steps, itself moved by (+1,+1), with 5 cells alive.
C14_GliderMoves ==
    (width = 10 /\ height = 10 /\ wrap /\ op = "step" /\ gen = 4
       /\ LoadedCells = {<<1, 0>>, <<2, 1>>, <<0, 2>>, <<1, 2>>, <<2, 2>>})
        => /\ live_cells = {<<2, 1>>, <<3, 2>>, <<1, 3>>, <<2, 3>>, <<3, 3>>}
           /\ live_cells = Moved(LoadedCells, 1, 1)
           /\ Cardinality(live_cells) = 5

\* C14 witness: the glider has been stepped four times.
C14_Witness ==
    /\ width = 10 /\ height = 10 /\ wrap
    /\ op = "step" /\ gen = 4
    /\ LoadedCells = {<<1, 0>>, <<2, 1>>, <<0, 2>>, <<1, 2>>, <<2, 2>>}
    /\ Cardinality(pre_cells) = 5 /\ pre_cells # live_cells

-----------------------------------------------------------------------------
(* Further properties of step and the neighbour count, checked under       *)
(* SpecStep                                                                *)

\* C16: in every configuration, a step from the empty live-cell set leaves
\* the empty set, and so does every further step.
C16_EmptyStaysEmpty ==
    (op = "step" /\ pre_cells = {}) => live_cells = {}

\* C16 witness: a board that was loaded with cells and died out has been
\* stepped again from the empty set.
C16_Witness ==
    /\ op = "step" /\ pre_cells = {} /\ live_cells = {}
    /\ Len(arg_items) >= 2
    /\ wrap /\ width >= 2

\* C17: every grid cell outside step's candidate set is dead and has
\* neighbour count 0, and is absent from the next generation; every cell
\* with a neighbour count of at least 1 is a candidate.
C17_CandidateSetIsSafe ==
    constructed =>
        /\ \A c \in GridCells(width, height) \
                    PotentialCells(live_cells, width, height, wrap) :
              /\ c \notin live_cells
              /\ get_neighbors_count(c[1], c[2], live_cells, width, height, wrap) = 0
        /\ \A c \in GridCells(width, height) :
              get_neighbors_count(c[1], c[2], live_cells, width, height, wrap) >= 1
                => c \in PotentialCells(live_cells, width, height, wrap)
        /\ op = "step" =>
              \A c \in GridCells(width, height) \
                       PotentialCells(pre_cells, width, height, wrap) :
                 c \notin live_cells

\* C17 witness: a step on a torus left cells alive while some grid cell was
\* not among its candidates.
C17_Witness ==
    /\ op = "step" /\ wrap
    /\ live_cells # {}
    /\ GridCells(width, height) \ PotentialCells(pre_cells, width, height, wrap) # {}

\* A corner of the grid, and a cell on exactly one of its edges.
OnXEdge(c) == c[1] = 0 \/ c[1] = width - 1
OnYEdge(c) == c[2] = 0 \/ c[2] = height - 1

\* C19: the neighbour count of every grid cell is in 0..8 and is the number
\* of the eight offsets whose cell (wrapped on the torus, skipped when
\* outside the walls) is alive; between walls, on grids of width and height
\* at least 2, a corner counts at most 3 and any other edge cell at most 5.
C19_CountRange ==
    constructed =>
        \A c \in GridCells(width, height) :
            LET n == get_neighbors_count(c[1], c[2], live_cells, width, height, wrap)
            IN  /\ n \in 0..8
                /\ n = RuleCount(c, live_cells)
                /\ (~wrap /\ width >= 2 /\ height >= 2) =>
                      /\ (OnXEdge(c) /\ OnYEdge(c)) => n <= 3
                      /\ (OnXEdge(c) # OnYEdge(c)) => n <= 5

\* C19 witness: after a step between walls a corner counts 3 and another
\* edge cell counts 5.
C19_Witness ==
    /\ op = "step" /\ ~wrap /\ width >= 2 /\ height >= 2
    /\ \E c \in GridCells(width, height) :
          /\ OnXEdge(c) /\ OnYEdge(c)
          /\ get_neighbors_count(c[1], c[2], live_cells, width, height, wrap) = 3
    /\ \E c \in GridCells(width, height) :
          /\ OnXEdge(c) # OnYEdge(c)
          /\ get_neighbors_count(c[1], c[2], live_cells, width, height, wrap) = 5

\* The count of c does not depend on c itself being alive.
SelfNotCounted(c) ==
    get_neighbors_count(c[1], c[2], live_cells \cup {c}, width, height, wrap)
      = get_neighbors_count(c[1], c[2], live_cells \ {c}, width, height, wrap)

\* No live cell other than c adds more than 1 to the count of c.
NoDoubleCount(c) ==
    \A s \in live_cells \ {c} :
        get_neighbors_count(c[1], c[2], {s}, width, height, wrap) <= 1

\* C20 as stated: in every configuration the neighbour count of a cell is the
\* same whether or not the cell itself is alive, and no single live cell
\* adds more than 1 to the count of another cell.
C20_AsStated ==
    constructed =>
        \A c \in GridCells(width, height) : SelfNotCounted(c) /\ NoDoubleCount(c)

\* C20 amended: between walls both hold in every configuration; on a torus
\* the count of a cell is independent of the cell itself when width and
\* height are both at least 2, and no live cell adds more than 1 to the count
\* of another when width and height are both at least 3.
C20_NeverOwnNeighbour ==
    constructed =>
        \A c \in GridCells(width, height) :
            /\ (~wrap \/ (width >= 2 /\ height >= 2)) => SelfNotCounted(c)
            /\ (~wrap \/ (width >= 3 /\ height >= 3)) => NoDoubleCount(c)

\* C20 witness: a step on the 3 x 3 torus left a cell with 8 live neighbours.
C20_Witness ==
    /\ op = "step" /\ wrap /\ width = 3 /\ height = 3
    /\ \E c \in GridCells(width, height) :
          get_neighbors_count(c[1], c[2], live_cells, width, height, wrap) = 8

-----------------------------------------------------------------------------
(* Properties of a step call in progress, checked under SpecLoop and        *)
(* SpecRun                                                                  *)

\* C18: while a step call is in progress the live-cell set is the set the
\* call found; each candidate is decided by the rule read against that set;
\* and the live-cell set changes only when the call returns, to the whole
\* next generation.
C18_FrozenSnapshot ==
    /\ [](pc # "idle" => live_cells = pre_cells)
    /\ [][ /\ (pc = "evaluate" /\ pc' = "evaluate") =>
                \A c \in todo \ todo' :
                    /\ c \in next_live_cells' <=> RuleAlive(c, pre_cells)
                    /\ next_live_cells' \ {c} = next_live_cells \ {c}
           /\ live_cells' # live_cells =>
                /\ pc = "evaluate" /\ pc' = "idle"
                /\ live_cells' = { d \in GridCells(width, height) :
                                     RuleAlive(d, pre_cells) } ]_vars

\* C18 witness: in the middle of the second loop a cell that was dead has
\* been decided alive, a live cell has been decided dead, and the live-cell
\* set is still the one the call found.
C18_Witness ==
    /\ pc = "evaluate" /\ todo # {}
    /\ next_live_cells \ pre_cells # {}
    /\ (pre_cells \ todo) \ next_live_cells # {}
    /\ live_cells = pre_cells

\* C15: a step call, once begun, returns after at most width * height
\* evaluations, each of a candidate not yet evaluated, with no error raised;
\* get_state returns with no error; and after either the engine accepts a
\* further step or get_state call.
C15_StepAndGetStateComplete ==
    /\ (pc # "idle") ~> (pc = "idle" /\ op = "step" /\ result = "ok")
    /\ []((pc = "idle" /\ op \in {"step", "get_state"}) =>
            /\ result = "ok"
            /\ ENABLED StepBegin
            /\ ENABLED get_state)
    /\ [](pc = "evaluate" => Cardinality(todo) <= width * height)
    /\ [][(pc = "evaluate" /\ pc' = "evaluate") =>
            (todo' \subseteq todo /\ todo' # todo)]_vars

\* C15 witness: a step call that evaluated four candidates has returned and
\* get_state has been called after it.
C15_Witness ==
    /\ pc = "idle" /\ op = "get_state" /\ result = "ok"
    /\ Cardinality(PotentialCells(pre_cells, width, height, wrap)) = 4
    /\ returned = live_cells /\ live_cells # pre_cells

-----------------------------------------------------------------------------
(* Relations between steps, checked under SpecShift and SpecModes *)

\* A set of grid cells moved around the torus by a shift (a, b) of less
\* than one turn.
Shifted(cells, a, b) ==
    { <<Around(c[1] + a, width), Around(c[2] + b, height)>> : c \in cells }

\* C21: on a torus, the step of the live-cell set S moved by (a, b) around
\* the torus is the step of S moved by (a, b), for every shift (a, b); a
\* shift moves a set by its residues modulo (width, height), so the shifts
\* from 0 to width - 1 and from 0 to height - 1 are all of them.
C21_StepCommutesWithTranslation ==
    (op = "step" /\ wrap) =>
        \A a \in 0..(width - 1), b \in 0..(height - 1) :
            NextLiveCells(Shifted(pre_cells, a, b), width, height, TRUE)
              = Shifted(live_cells, a, b)

\* C21 witness: a step on the 3 x 3 torus gave birth to cells, from a set
\* that some shift moves onto a different set.
C21_Witness ==
    /\ op = "step" /\ wrap /\ width = 3 /\ height = 3
    /\ live_cells \ pre_cells # {}
    /\ \E a \in 0..(width - 1), b \in 0..(height - 1) :
          Shifted(pre_cells, a, b) # pre_cells

\* Every cell of S keeps off the edges of the grid.
OffEdges(S) ==
    \A c \in S : 1 <= c[1] /\ c[1] <= width - 2 /\ 1 <= c[2] /\ c[2] <= height - 2

\* C22: when every live cell has 1 <= x <= width - 2 and 1 <= y <= height - 2,
\* one step of the engine gives the set that one step of an engine of the
\* other mode and the same dimensions gives from the same live-cell set.
C22_ModesAgreeOffEdges ==
    (op = "step" /\ OffEdges(pre_cells)) =>
        /\ live_cells = NextLiveCells(pre_cells, width, height, ~wrap)
        /\ \A c \in GridCells(width, height) :
              c \in live_cells <=>
                  LivesNext(c, pre_cells, width, height, ~wrap)

\* C22 witness: a step from a set off the edges gave birth to a cell on an
\* edge of the grid.
C22_Witness ==
    /\ op = "step" /\ pre_cells # {} /\ OffEdges(pre_cells)
    /\ \E c \in live_cells : OnXEdge(c) \/ OnYEdge(c)

====
